---------------------------- MODULE Spec2Model ----------------------------
(***************************************************************************)
(* Interrupt dispatch of the RP2350 chip (chips/rp2350/src/chip.rs) on top *)
(* of the Cortex-M33 NVIC.  Two cores run the kernel main loop; each calls *)
(* service_pending_interrupts(), has_pending_interrupts() and atomic().    *)
(* The interrupt controller (cortexm::nvic), the generic ISR,               *)
(* cortexm::support::atomic and the numbering of the interrupt lines       *)
(* (crate::interrupts) are modelled from their documented contracts.       *)
(***************************************************************************)
EXTENDS Integers, FiniteSets, Sequences, TLC

(* ------------------------------------------------------------------ *)
(* Processors (chip.rs, enum Processor)                               *)
(* ------------------------------------------------------------------ *)
Processor0 == 0
Processor1 == 1
Cores == {Processor0, Processor1}
OtherCore(c) == IF c = Processor0 THEN Processor1 ELSE Processor0

(* ------------------------------------------------------------------ *)
(* Interrupt numbering (crate::interrupts).  Only distinctness and    *)
(* the relative order of the identifiers are used by the model.       *)
(* ------------------------------------------------------------------ *)
TIMER_IRQ_0 == 0
PWM_IRQ_WRAP == 4
USBCTRL_IRQ == 5
PIO0_IRQ_0 == 7
PIO1_IRQ_0 == 9
IO_IRQ_BANK0 == 13
SIO_IRQ_PROC0 == 15
SIO_IRQ_PROC1 == 16
SPI0_IRQ == 18
UART0_IRQ == 20
UART1_IRQ == 21
ADC_IRQ_FIFO == 22
I2C0_IRQ == 23
RTC_IRQ == 25

(* The lines the hardware of the model asserts: one shared handled    *)
(* line, the two inter-processor lines, and the line of uart1.        *)
Lines == {TIMER_IRQ_0, SIO_IRQ_PROC0, SIO_IRQ_PROC1, UART1_IRQ}

(* Option<u32>: None is the empty sequence, Some(i) is <<i>>.         *)
None == << >>
Some(i) == << i >>
IsSome(o) == Len(o) = 1
Unwrap(o) == o[1]

VARIABLES
    pending,     \* NVIC pending flag of every line
    enabled,     \* NVIC enable flag of every line
    pc,          \* position of each core's kernel thread
    cur,         \* `interrupt` of the drain loop, per core
    panicId,     \* id carried by the panic message, per core
    hpResult,    \* value has_pending_interrupts hands to the main loop, per core
    dispatched,  \* lines whose handler the running call has run, per core
    entry,       \* visible lines pending at entry of the running call, per core
    owed,        \* visible lines pending at entry of the running call that
                 \* no core has handled since, per core
    primask,     \* PRIMASK (interrupts suppressed), per core
    counter,     \* the monotonically incremented counter of the atomic scenario
    fStamp,      \* counter value recorded (and returned) by the closure, per core
    hStamp,      \* counter value recorded by the interrupt handler, per core
    raisedInF,   \* lines asserted while the closure of this core ran
    result,      \* value returned by atomic, per core
    chip,        \* the Rp2350 struct: its two per-core interrupt masks
    target,      \* the build target the cfg attributes of switch_to_user select on
    swPc,        \* position of the kernel thread around switch_to_user
    user_stack,  \* argument user_stack of switch_to_user
    process_regs,\* argument process_regs of switch_to_user: [usize; 8]
    swRet,       \* stack pointer switch_to_user returned, None before it returns
    mpuActive,   \* the regions of the MPU that are active
    mpuRequested,\* number of regions the last request asked to activate
    mpuResult,   \* answer to the last request: "none", "ok" or "error"
    unserved     \* per line: whether an assertion no handler has seen yet is
                 \* latched, and whether it arrived before ("early") or only
                 \* inside ("late") a handler-to-clear_pending window

vars == << pending, enabled, pc, cur, panicId, hpResult, dispatched, entry, owed,
           primask, counter, fStamp, hStamp, raisedInF, result, chip,
           target, swPc, user_stack, process_regs, swRet,
           mpuActive, mpuRequested, mpuResult, unserved >>

\* What the chip's interrupt and atomic operations never touch.
switchVars == << target, swPc, user_stack, process_regs, swRet >>
mpuVars == << mpuActive, mpuRequested, mpuResult >>
restVars == << chip, switchVars, mpuVars >>

hwVars == << pending, enabled >>
drainVars == << cur, panicId, dispatched, entry, owed >>
atomicVars == << primask, counter, fStamp, hStamp, raisedInF, result >>

(* ------------------------------------------------------------------ *)
(* cortexm::interrupt_mask! and cortexm::nvic                          *)
(* ------------------------------------------------------------------ *)
\* A mask is the pair (high, low) of 128-bit words; bit i of the pair is
\* bit i of low for i < 128 and bit i-128 of high otherwise.
interrupt_mask(i) == IF i < 128 THEN << 0, 2^i >> ELSE << 2^(i - 128), 0 >>

MaskBit(mask, i) ==
    IF i < 128 THEN (mask[2] \div 2^i) % 2 = 1
               ELSE (mask[1] \div 2^(i - 128)) % 2 = 1

\* The pending lines that the mask does not exclude.
PendingWithMask(mask) == { i \in Lines : pending[i] /\ ~MaskBit(mask, i) }

Lowest(S) == CHOOSE i \in S : \A j \in S : i <= j

next_pending_with_mask(mask) ==
    IF PendingWithMask(mask) = {} THEN None
    ELSE Some(Lowest(PendingWithMask(mask)))

has_pending_with_mask(mask) == PendingWithMask(mask) # {}

(* ------------------------------------------------------------------ *)
(* Rp2350::new: the two per-core masks                                 *)
(* ------------------------------------------------------------------ *)
Empty_processor0_interrupt_mask == << 0, 0 >>
processor0_interrupt_mask == interrupt_mask(SIO_IRQ_PROC1)

Copied_processor1_interrupt_mask == interrupt_mask(SIO_IRQ_PROC1)
processor1_interrupt_mask == interrupt_mask(SIO_IRQ_PROC0)

\* Self { ..., processor0_interrupt_mask: ..., processor1_interrupt_mask: ... }
Rp2350_new ==
    [ processor0_interrupt_mask |-> processor0_interrupt_mask,
      processor1_interrupt_mask |-> processor1_interrupt_mask ]

\* SIO::get_processor reads the CPUID register of the executing core.
get_processor(c) == c

(* ------------------------------------------------------------------ *)
(* Rp2350DefaultPeripherals                                            *)
(* ------------------------------------------------------------------ *)
\* The match of service_interrupt: TRUE for the arms that run a handler
\* (or deliberately ignore the line), FALSE for the wildcard arm.
service_interrupt(interrupt) ==
    CASE interrupt = PIO0_IRQ_0    -> TRUE
      [] interrupt = TIMER_IRQ_0   -> TRUE
      [] interrupt = SIO_IRQ_PROC0 -> TRUE
      [] interrupt = SIO_IRQ_PROC1 -> TRUE
      [] interrupt = SPI0_IRQ      -> TRUE
      [] interrupt = UART0_IRQ     -> TRUE
      [] interrupt = ADC_IRQ_FIFO  -> TRUE
      [] interrupt = USBCTRL_IRQ   -> TRUE
      [] interrupt = IO_IRQ_BANK0  -> TRUE
      [] interrupt = I2C0_IRQ      -> TRUE
      [] interrupt = PWM_IRQ_WRAP  -> TRUE
      [] OTHER                     -> FALSE

\* The arms of SIO_IRQ_PROC0 and SIO_IRQ_PROC1: the processor handed to
\* sio.handle_proc_interrupt, None for every other line.
Swapped_handle_proc_interrupt(interrupt) ==
    CASE interrupt = SIO_IRQ_PROC0 -> Some(Processor1)
      [] interrupt = SIO_IRQ_PROC1 -> Some(Processor0)
      [] OTHER                     -> None
handle_proc_interrupt(interrupt) ==
    CASE interrupt = SIO_IRQ_PROC0 -> Some(Processor0)
      [] interrupt = SIO_IRQ_PROC1 -> Some(Processor1)
      [] OTHER                     -> None

\* The interrupt lines of the peripherals the struct owns: adc, i2c0,
\* pins, pio0, pio1, pwm, sio, spi0, timer, uart0, uart1, usb, rtc.
PeripheralLines ==
    { ADC_IRQ_FIFO, I2C0_IRQ, IO_IRQ_BANK0, PIO0_IRQ_0, PIO1_IRQ_0,
      PWM_IRQ_WRAP, SIO_IRQ_PROC0, SIO_IRQ_PROC1, SPI0_IRQ, TIMER_IRQ_0,
      UART0_IRQ, UART1_IRQ, USBCTRL_IRQ, RTC_IRQ }

(* ------------------------------------------------------------------ *)
(* Initial state                                                       *)
(* ------------------------------------------------------------------ *)
InitChip ==
    /\ pending = [i \in Lines |-> FALSE]
    /\ enabled = [i \in Lines |-> TRUE]
    /\ pc = [c \in Cores |-> "idle"]
    /\ cur = [c \in Cores |-> None]
    /\ panicId = [c \in Cores |-> None]
    /\ hpResult = [c \in Cores |-> FALSE]
    /\ dispatched = [c \in Cores |-> {}]
    /\ entry = [c \in Cores |-> {}]
    /\ owed = [c \in Cores |-> {}]
    /\ primask = [c \in Cores |-> FALSE]
    /\ counter = 0
    /\ fStamp = [c \in Cores |-> 0]
    /\ hStamp = [c \in Cores |-> 0]
    /\ raisedInF = [c \in Cores |-> {}]
    /\ result = [c \in Cores |-> 0]
    /\ chip = Rp2350_new
    /\ unserved = [i \in Lines |-> "none"]

\* The width of process_regs and the values a register and a stack pointer
\* take in the model.
NumRegs == 8
Words == {0, 1}
Targets == {"arm_none", "host"}

\* The kernel built for the hardware, before its first switch to a process.
InitSwitchIdle ==
    /\ target = "arm_none"
    /\ swPc = "kernel"
    /\ user_stack = 0
    /\ process_regs = [r \in 1 .. NumRegs |-> 0]
    /\ swRet = None

\* The MPU after reset: no region is active.
InitMpu ==
    /\ mpuActive = {}
    /\ mpuRequested = 0
    /\ mpuResult = "none"

Init == InitChip /\ InitSwitchIdle /\ InitMpu

(* ------------------------------------------------------------------ *)
(* Hardware                                                            *)
(* ------------------------------------------------------------------ *)
\* The cores whose atomic closure is executing.
InClosure(c) == pc[c] \in {"atomic_f", "atomic_out"}

\* Some core has run the handler of line i and has not yet cleared the line.
InWindow(i) == \E c \in Cores : pc[c] = "clear" /\ cur[c] = Some(i)

\* A peripheral asserts line i: the controller latches it as pending.
HwAssert(i) ==
    /\ pending' = [pending EXCEPT ![i] = TRUE]
    /\ raisedInF' = [c \in Cores |->
                        IF InClosure(c) THEN raisedInF[c] \cup {i}
                        ELSE raisedInF[c]]
    /\ UNCHANGED << enabled, pc, hpResult, drainVars,
                    primask, counter, fStamp, hStamp, result >>
    /\ unserved' = [unserved EXCEPT ![i] =
                      IF InWindow(i) /\ unserved[i] # "early"
                      THEN "late" ELSE "early"]
    /\ UNCHANGED restVars

(* ------------------------------------------------------------------ *)
(* Rp2350::service_pending_interrupts, one step per hardware access    *)
(* ------------------------------------------------------------------ *)
\* let mask = match self.sio.get_processor() { ... }
SwappedServiceMask(c) ==
    IF get_processor(c) = Processor0 THEN chip.processor1_interrupt_mask
    ELSE chip.processor0_interrupt_mask
ServiceMask(c) ==
    IF get_processor(c) = Processor0 THEN chip.processor0_interrupt_mask
    ELSE chip.processor1_interrupt_mask

\* The call is entered from the main loop and the mask is selected.
service_pending_interrupts_begin(c) ==
    /\ pc[c] = "idle"
    /\ pc' = [pc EXCEPT ![c] = "loop"]
    /\ cur' = [cur EXCEPT ![c] = None]
    /\ dispatched' = [dispatched EXCEPT ![c] = {}]
    /\ entry' = [entry EXCEPT ![c] = PendingWithMask(ServiceMask(c))]
    /\ owed' = [owed EXCEPT ![c] = PendingWithMask(ServiceMask(c))]
    /\ UNCHANGED << hwVars, panicId, hpResult, atomicVars >>
    /\ UNCHANGED << restVars, unserved >>

\* if let Some(interrupt) = nvic::next_pending_with_mask(mask)
UnmaskedQuery(c) == next_pending_with_mask(<< 0, 0 >>)
LastPendingQuery(c) ==
    IF PendingWithMask(ServiceMask(c)) = {} THEN None
    ELSE Some(CHOOSE i \in PendingWithMask(ServiceMask(c)) :
                 \A j \in PendingWithMask(ServiceMask(c)) : j <= i)
ServiceQuery(c) == next_pending_with_mask(ServiceMask(c))

\* The head of the loop: the query, and on None the break and the return.
service_pending_interrupts_query(c) ==
    /\ pc[c] = "loop"
    /\ IF IsSome(ServiceQuery(c))
       THEN /\ cur' = [cur EXCEPT ![c] = ServiceQuery(c)]
            /\ pc' = [pc EXCEPT ![c] = "service"]
            /\ UNCHANGED << dispatched, entry, owed >>
       ELSE /\ cur' = [cur EXCEPT ![c] = None]
            /\ pc' = [pc EXCEPT ![c] = "idle"]
            /\ dispatched' = [dispatched EXCEPT ![c] = {}]
            /\ entry' = [entry EXCEPT ![c] = {}]
            /\ owed' = [owed EXCEPT ![c] = {}]
    /\ UNCHANGED << hwVars, panicId, hpResult, atomicVars >>
    /\ UNCHANGED << restVars, unserved >>

\* if !self.interrupt_service.service_interrupt(interrupt) { panic!(...) }
DropUnhandled(c) ==
    /\ pc[c] = "service"
    /\ pc' = [pc EXCEPT ![c] = "clear"]
    /\ IF service_interrupt(Unwrap(cur[c]))
       THEN /\ dispatched' = [dispatched EXCEPT ![c] = @ \cup {Unwrap(cur[c])}]
            /\ owed' = [owed EXCEPT ![c] = @ \ {Unwrap(cur[c])}]
       ELSE UNCHANGED << dispatched, owed >>
    /\ UNCHANGED << hwVars, cur, panicId, hpResult, entry, atomicVars >>
    /\ unserved' = IF service_interrupt(Unwrap(cur[c]))
                   THEN [unserved EXCEPT ![Unwrap(cur[c])] = "none"]
                   ELSE unserved
    /\ UNCHANGED restVars
service_pending_interrupts_dispatch(c) ==
    /\ pc[c] = "service"
    /\ IF service_interrupt(Unwrap(cur[c]))
       THEN /\ pc' = [pc EXCEPT ![c] = "clear"]
            /\ dispatched' = [dispatched EXCEPT ![c] = @ \cup {Unwrap(cur[c])}]
            /\ owed' = [owed EXCEPT ![c] = @ \ {Unwrap(cur[c])}]
            /\ UNCHANGED panicId
       ELSE /\ pc' = [pc EXCEPT ![c] = "halted"]
            /\ panicId' = [panicId EXCEPT ![c] = cur[c]]
            /\ UNCHANGED << dispatched, owed >>
    /\ UNCHANGED << hwVars, cur, hpResult, entry, atomicVars >>
    /\ unserved' = IF service_interrupt(Unwrap(cur[c]))
                   THEN [unserved EXCEPT ![Unwrap(cur[c])] = "none"]
                   ELSE unserved
    /\ UNCHANGED restVars

\* n.clear_pending()
service_pending_interrupts_clear_pending(c) ==
    /\ pc[c] = "clear"
    /\ pending' = [pending EXCEPT ![Unwrap(cur[c])] = FALSE]
    /\ pc' = [pc EXCEPT ![c] = "enable"]
    /\ owed' = [owed EXCEPT ![OtherCore(c)] = @ \ {Unwrap(cur[c])}]
    /\ UNCHANGED << enabled, cur, panicId, hpResult, dispatched, entry,
                    atomicVars >>
    /\ unserved' = [unserved EXCEPT ![Unwrap(cur[c])] = "none"]
    /\ UNCHANGED restVars

\* n.enable(), then the next iteration of the loop
EnableThenReturn(c) ==
    /\ pc[c] = "enable"
    /\ enabled' = [enabled EXCEPT ![Unwrap(cur[c])] = TRUE]
    /\ pc' = [pc EXCEPT ![c] = "idle"]
    /\ cur' = [cur EXCEPT ![c] = None]
    /\ dispatched' = [dispatched EXCEPT ![c] = {}]
    /\ entry' = [entry EXCEPT ![c] = {}]
    /\ owed' = [owed EXCEPT ![c] = {}]
    /\ UNCHANGED << pending, panicId, hpResult, atomicVars >>
    /\ UNCHANGED << restVars, unserved >>
service_pending_interrupts_enable(c) ==
    /\ pc[c] = "enable"
    /\ enabled' = [enabled EXCEPT ![Unwrap(cur[c])] = TRUE]
    /\ pc' = [pc EXCEPT ![c] = "loop"]
    /\ UNCHANGED << pending, drainVars, hpResult, atomicVars >>
    /\ UNCHANGED << restVars, unserved >>

(* ------------------------------------------------------------------ *)
(* Rp2350::has_pending_interrupts                                      *)
(* ------------------------------------------------------------------ *)
SwappedHasPendingMask(c) ==
    IF get_processor(c) = Processor0 THEN chip.processor1_interrupt_mask
    ELSE chip.processor0_interrupt_mask
HasPendingMask(c) ==
    IF get_processor(c) = Processor0 THEN chip.processor0_interrupt_mask
    ELSE chip.processor1_interrupt_mask

has_pending_interrupts(c) == has_pending_with_mask(HasPendingMask(c))

\* The main loop calls has_pending_interrupts and keeps the answer.
has_pending_interrupts_call(c) ==
    /\ pc[c] = "idle"
    /\ hpResult' = [hpResult EXCEPT ![c] = has_pending_interrupts(c)]
    /\ pc' = [pc EXCEPT ![c] = "hp_done"]
    /\ UNCHANGED << hwVars, drainVars, atomicVars >>
    /\ UNCHANGED << restVars, unserved >>

has_pending_interrupts_return(c) ==
    /\ pc[c] = "hp_done"
    /\ pc' = [pc EXCEPT ![c] = "idle"]
    /\ hpResult' = [hpResult EXCEPT ![c] = FALSE]
    /\ UNCHANGED << hwVars, drainVars, atomicVars >>
    /\ UNCHANGED << restVars, unserved >>


(* ------------------------------------------------------------------ *)
(* The generic ISR (CortexMVariant::GENERIC_ISR)                       *)
(* ------------------------------------------------------------------ *)
\* Bound of the counter of the atomic scenario.
MaxCount == 3

\* Core c takes the exception of line i: the line must be pending and
\* enabled and the core must not have interrupts suppressed.  The handler
\* disables the line and leaves it pending for the drain loop; when the
\* line was asserted while this core's closure ran, it records the counter.
generic_isr(c, i) ==
    /\ pending[i]
    /\ enabled[i]
    /\ ~primask[c]
    /\ enabled' = [enabled EXCEPT ![i] = FALSE]
    /\ IF i \in raisedInF[c]
       THEN /\ counter < MaxCount
            /\ counter' = counter + 1
            /\ hStamp' = [hStamp EXCEPT ![c] = counter + 1]
            /\ raisedInF' = [raisedInF EXCEPT ![c] = @ \ {i}]
       ELSE UNCHANGED << counter, hStamp, raisedInF >>
    /\ UNCHANGED << pending, pc, hpResult, drainVars, primask, fStamp, result >>
    /\ UNCHANGED << restVars, unserved >>

(* ------------------------------------------------------------------ *)
(* Rp2350::atomic -> cortexm::support::atomic                          *)
(* ------------------------------------------------------------------ *)
\* support::atomic: interrupts are suppressed before the closure runs ...
support_atomic_disable(c) == primask' = [primask EXCEPT ![c] = TRUE]
\* ... and enabled again after it has returned.
support_atomic_enable(c) == primask' = [primask EXCEPT ![c] = FALSE]

\* unsafe fn atomic(&self, f: F) -> R { cortexm33::support::atomic(f) }
CallClosureDirectly(c) ==
    /\ pc[c] = "idle"
    /\ counter < MaxCount
    /\ pc' = [pc EXCEPT ![c] = "atomic_f"]
    /\ UNCHANGED primask
    /\ fStamp' = [fStamp EXCEPT ![c] = 0]
    /\ hStamp' = [hStamp EXCEPT ![c] = 0]
    /\ raisedInF' = [raisedInF EXCEPT ![c] = {}]
    /\ UNCHANGED << hwVars, hpResult, drainVars, counter, result >>
    /\ UNCHANGED << restVars, unserved >>
atomic(c) ==
    /\ pc[c] = "idle"
    /\ counter < MaxCount
    /\ pc' = [pc EXCEPT ![c] = "atomic_f"]
    /\ support_atomic_disable(c)
    /\ fStamp' = [fStamp EXCEPT ![c] = 0]
    /\ hStamp' = [hStamp EXCEPT ![c] = 0]
    /\ raisedInF' = [raisedInF EXCEPT ![c] = {}]
    /\ UNCHANGED << hwVars, hpResult, drainVars, counter, result >>
    /\ UNCHANGED << restVars, unserved >>

\* The closure of the scenario: || { x += 1; x }, x being the counter.
atomic_closure(c) ==
    /\ pc[c] = "atomic_f"
    /\ counter < MaxCount
    /\ counter' = counter + 1
    /\ fStamp' = [fStamp EXCEPT ![c] = counter + 1]
    /\ pc' = [pc EXCEPT ![c] = "atomic_out"]
    /\ UNCHANGED << hwVars, hpResult, drainVars, primask, hStamp, raisedInF,
                    result >>
    /\ UNCHANGED << restVars, unserved >>

\* The closure has returned: interrupts are enabled, its value is returned.
atomic_return(c) ==
    /\ pc[c] = "atomic_out"
    /\ support_atomic_enable(c)
    /\ result' = [result EXCEPT ![c] = fStamp[c]]
    /\ pc' = [pc EXCEPT ![c] = "idle"]
    /\ UNCHANGED << hwVars, hpResult, drainVars, counter, fStamp, hStamp,
                    raisedInF >>
    /\ UNCHANGED << restVars, unserved >>

(* ------------------------------------------------------------------ *)
(* CortexM33::switch_to_user                                           *)
(* ------------------------------------------------------------------ *)
chipVars == << hwVars, pc, hpResult, drainVars, atomicVars, chip, unserved >>

\* cortexv8m::switch_to_user_arm_v8m: execution is handed to the process.
switch_to_user_arm_v8m(stack, regs) ==
    /\ swPc' = "user"
    /\ UNCHANGED << target, user_stack, process_regs, swRet >>

\* A host variant that returns its argument instead of aborting.
ReturnUserStack ==
    /\ swPc = "kernel"
    /\ IF target = "arm_none"
       THEN switch_to_user_arm_v8m(user_stack, process_regs)
       ELSE /\ swPc' = "returned"
            /\ swRet' = Some(user_stack)
            /\ UNCHANGED << target, user_stack, process_regs >>
    /\ UNCHANGED << chipVars, mpuVars >>

\* The two cfg variants: the hardware build delegates, any other build
\* reaches unimplemented!(), which panics.
switch_to_user ==
    /\ swPc = "kernel"
    /\ IF target = "arm_none"
       THEN switch_to_user_arm_v8m(user_stack, process_regs)
       ELSE /\ swPc' = "panicked"
            /\ UNCHANGED << target, user_stack, process_regs, swRet >>
    /\ UNCHANGED << chipVars, mpuVars >>

\* The processor re-enters kernel mode: switch_to_user_arm_v8m returns the
\* stack pointer of the process and has written its registers to process_regs.
switch_to_user_arm_v8m_return ==
    /\ swPc = "user"
    /\ swPc' = "returned"
    /\ \E regs \in [1 .. NumRegs -> Words], sp \in Words :
          /\ process_regs' = regs
          /\ swRet' = Some(sp)
    /\ UNCHANGED << target, user_stack >>
    /\ UNCHANGED << chipVars, mpuVars >>

(* ------------------------------------------------------------------ *)
(* mpu::MPU = cortexm::mpu::MPU<8, 32>                                 *)
(* ------------------------------------------------------------------ *)
\* The first const parameter of the alias: the number of regions.
NUM_REGIONS_PlusOne == 8 + 1
NUM_REGIONS == 8

\* Largest number of regions a single request asks for.
MaxRequest == 2

Regions == 0 .. (NUM_REGIONS - 1)

RECURSIVE FirstFree(_, _)
\* The n lowest-numbered regions outside of S.
FirstFree(S, n) ==
    IF n = 0 THEN {}
    ELSE LET r == CHOOSE x \in Regions \ S : \A y \in Regions \ S : x <= y
         IN  {r} \cup FirstFree(S \cup {r}, n - 1)

\* A request to make n more regions active: granted whole when the regions
\* exist, refused whole with a configuration error otherwise.
mpu_allocate_regions(n) ==
    /\ mpuRequested' = n
    /\ IF Cardinality(mpuActive) + n <= NUM_REGIONS
       THEN /\ mpuActive' = mpuActive \cup FirstFree(mpuActive, n)
            /\ mpuResult' = "ok"
       ELSE /\ mpuActive' = mpuActive
            /\ mpuResult' = "error"
    /\ UNCHANGED << chipVars, switchVars >>

\* A region is disabled.
mpu_disable_region(r) ==
    /\ r \in mpuActive
    /\ mpuActive' = mpuActive \ {r}
    /\ mpuRequested' = 0
    /\ mpuResult' = "none"
    /\ UNCHANGED << chipVars, switchVars >>

(* ------------------------------------------------------------------ *)
(* Specifications                                                      *)
(* ------------------------------------------------------------------ *)
\* Interrupt dispatch: both cores, the controller and the generic ISR.
Next ==
    \/ \E i \in Lines : HwAssert(i)
    \/ \E c \in Cores, i \in Lines : generic_isr(c, i)
    \/ \E c \in Cores : service_pending_interrupts_begin(c)
    \/ \E c \in Cores : service_pending_interrupts_query(c)
    \/ \E c \in Cores : service_pending_interrupts_dispatch(c)
    \/ \E c \in Cores : service_pending_interrupts_clear_pending(c)
    \/ \E c \in Cores : service_pending_interrupts_enable(c)
    \/ \E c \in Cores : has_pending_interrupts_call(c)
    \/ \E c \in Cores : has_pending_interrupts_return(c)

Spec == Init /\ [][Next]_vars

\* The critical section: each core's kernel thread runs atomic sections
\* while the hardware asserts lines and the generic ISR preempts the thread.
\* The drain loop runs on the same thread, strictly before or after an
\* atomic section, and is left to Spec.
NextAtomic ==
    \/ \E i \in Lines : HwAssert(i)
    \/ \E c \in Cores, i \in Lines : generic_isr(c, i)
    \/ \E c \in Cores : atomic(c)
    \/ \E c \in Cores : atomic_closure(c)
    \/ \E c \in Cores : atomic_return(c)

SpecAtomic == Init /\ [][NextAtomic]_vars

\* Runs of the drain loop during which no line the running core sees is
\* asserted again: a peripheral asserts a line only while no core that sees
\* the line is inside service_pending_interrupts.  A line owned by the other
\* core may be asserted at any time.
HwAssertOutsideCall(i) ==
    /\ \A c \in Cores :
          pc[c] \in {"loop", "service", "clear", "enable"} =>
              MaskBit(ServiceMask(c), i)
    /\ HwAssert(i)

NextRun ==
    \/ \E i \in Lines : HwAssertOutsideCall(i)
    \/ \E c \in Cores, i \in Lines : generic_isr(c, i)
    \/ \E c \in Cores : service_pending_interrupts_begin(c)
    \/ \E c \in Cores : service_pending_interrupts_query(c)
    \/ \E c \in Cores : service_pending_interrupts_dispatch(c)
    \/ \E c \in Cores : service_pending_interrupts_clear_pending(c)
    \/ \E c \in Cores : service_pending_interrupts_enable(c)

\* A core that is inside the call keeps executing it: the kernel thread is
\* preempted by the ISR only, which returns.
service_pending_interrupts_step(c) ==
    \/ service_pending_interrupts_query(c)
    \/ service_pending_interrupts_dispatch(c)
    \/ service_pending_interrupts_clear_pending(c)
    \/ service_pending_interrupts_enable(c)

SpecRun ==
    /\ Init
    /\ [][NextRun]_vars
    /\ \A c \in Cores : WF_vars(service_pending_interrupts_step(c))

\* The userspace boundary: one call of switch_to_user on either build, with
\* any register contents and stack pointer.
InitSwitch ==
    /\ InitChip
    /\ InitMpu
    /\ target \in Targets
    /\ swPc = "kernel"
    /\ user_stack \in Words
    /\ process_regs \in [1 .. NumRegs -> Words]
    /\ swRet = None

NextSwitch ==
    \/ switch_to_user
    \/ switch_to_user_arm_v8m_return

SpecSwitch == InitSwitch /\ [][NextSwitch]_vars

\* The MPU: regions are requested and disabled in any order.
NextMpu ==
    \/ \E n \in 1 .. MaxRequest : mpu_allocate_regions(n)
    \/ \E r \in Regions : mpu_disable_region(r)

SpecMpu == Init /\ [][NextMpu]_vars


(* ------------------------------------------------------------------ *)
(* Vocabulary of the properties                                        *)
(* ------------------------------------------------------------------ *)
\* The inter-processor line that belongs to core c alone.
OwnedLine(c) == IF c = Processor0 THEN SIO_IRQ_PROC0 ELSE SIO_IRQ_PROC1
\* The line core c must never act on.
ForeignLine(c) == OwnedLine(OtherCore(c))
\* The lines core c is meant to see.
VisibleTo(c) == Lines \ {ForeignLine(c)}
\* Core c is between a query that found a line and the end of that iteration.
Dispatching(c) == pc[c] \in {"service", "clear", "enable"}
\* Core c is inside service_pending_interrupts.
Draining(c) == pc[c] \in {"loop", "service", "clear", "enable"}
\* This step is the normal return of service_pending_interrupts on core c.
Returned(c) == Draining(c) /\ pc'[c] = "idle"
\* This step is a step of core c's drain loop.
DrainStep(c) == Draining(c) /\ pc'[c] # pc[c]

(* ------------------------------------------------------------------ *)
(* C1: a line owned by one core is dispatched by that core only.  The  *)
(* drain loop of the other core never takes it as its interrupt and    *)
(* never changes its pending or enable flag, so a call on the other    *)
(* core returns with it still pending; a call on the owning core does  *)
(* not return before it has dispatched the owned line it found pending *)
(* at entry.                                                           *)
(* ------------------------------------------------------------------ *)
C1_OwnedLineRouting ==
    [][\A c \in Cores :
          /\ Dispatching(c)' => Unwrap(cur'[c]) # ForeignLine(c)
          /\ DrainStep(c) =>
                /\ pending'[ForeignLine(c)] = pending[ForeignLine(c)]
                /\ enabled'[ForeignLine(c)] = enabled[ForeignLine(c)]
          /\ Returned(c) =>
                /\ OwnedLine(c) \notin owed[c]
                /\ ~pending[OwnedLine(c)]
      ]_vars

\* Core 1 has dispatched the shared line only and is about to return while
\* the line of core 0 is still pending.
C1_Witness ==
    /\ pc[Processor1] = "loop"
    /\ dispatched[Processor1] = {TIMER_IRQ_0}
    /\ pending[SIO_IRQ_PROC0]
    /\ \A i \in VisibleTo(Processor1) : ~pending[i]

(* ------------------------------------------------------------------ *)
(* C2: when the interrupt service does not recognise the line found    *)
(* pending, the core halts with exactly that id; the halt is final,    *)
(* the line stays pending, it is never re-enabled, and the halted core *)
(* dispatches nothing more.                                            *)
(* ------------------------------------------------------------------ *)
C2_UnhandledHalts ==
    [][\A c \in Cores :
          /\ (pc[c] = "service" /\ ~service_interrupt(Unwrap(cur[c]))
                /\ pc'[c] # pc[c]) =>
                /\ pc'[c] = "halted"
                /\ panicId'[c] = cur[c]
                /\ pending' = pending
                /\ enabled' = enabled
          /\ pc[c] = "halted" =>
                /\ pc'[c] = "halted"
                /\ panicId'[c] = panicId[c]
                /\ cur'[c] = cur[c]
                /\ dispatched'[c] = dispatched[c]
                /\ pending'[Unwrap(panicId[c])]
                /\ enabled'[Unwrap(panicId[c])] => enabled[Unwrap(panicId[c])]
      ]_vars

\* Core 0 has halted on the line of uart1 while its own line is pending.
C2_Witness ==
    /\ pc[Processor0] = "halted"
    /\ panicId[Processor0] = Some(UART1_IRQ)
    /\ pending[UART1_IRQ]
    /\ ~enabled[UART1_IRQ]
    /\ pending[SIO_IRQ_PROC0]

(* ------------------------------------------------------------------ *)
(* C3: for a line whose handler returned true the loop clears the      *)
(* pending flag and then sets the enable flag, and at the return of    *)
(* service_pending_interrupts no line dispatched by the call is        *)
(* pending, whatever the hardware asserted while the loop ran.         *)
(* ------------------------------------------------------------------ *)
C3_ClearedAtReturn ==
    [][\A c \in Cores :
          /\ (pc[c] = "clear" /\ pc'[c] # pc[c]) =>
                /\ ~pending'[Unwrap(cur[c])]
                /\ pc'[c] = "enable"
          /\ (pc[c] = "enable" /\ pc'[c] # pc[c]) => enabled'[Unwrap(cur[c])]
          /\ Returned(c) => \A i \in dispatched[c] : ~pending'[i]
      ]_vars

\* A line was asserted again after its handler ran: the call has dispatched
\* it, it is pending once more, and the loop is back at its head.
C3_Witness ==
    /\ pc[Processor0] = "loop"
    /\ TIMER_IRQ_0 \in dispatched[Processor0]
    /\ pending[TIMER_IRQ_0]
    /\ pc[Processor1] = "idle"

(* ------------------------------------------------------------------ *)
(* C4: has_pending_interrupts on a core is never true on account of    *)
(* the line owned by the other core: when it answers true, a line      *)
(* other than the foreign one is pending.                              *)
(* ------------------------------------------------------------------ *)
C4_ForeignLineIgnored ==
    [][\A c \in Cores :
          (pc[c] = "idle" /\ pc'[c] = "hp_done" /\ hpResult'[c]) =>
              \E i \in VisibleTo(c) : pending[i]
      ]_vars

\* Core 0 was answered false while the line of core 1 is pending.
C4_Witness ==
    /\ pc[Processor0] = "hp_done"
    /\ ~hpResult[Processor0]
    /\ pending[SIO_IRQ_PROC1]

(* ------------------------------------------------------------------ *)
(* C5: service_pending_interrupts returns only from a query that found *)
(* no pending line visible to the core, and never while a visible line *)
(* that was pending at entry has been handled by no core.              *)
(* ------------------------------------------------------------------ *)
C5_DrainsToQuiescence ==
    [][\A c \in Cores :
          Returned(c) =>
              /\ pc[c] = "loop"
              /\ \A i \in VisibleTo(c) : ~pending[i] /\ ~pending'[i]
              /\ owed[c] = {}
      ]_vars

\* Two visible lines were pending at entry; both have been dispatched and
\* the call is about to return.
C5_Witness ==
    /\ pc[Processor0] = "loop"
    /\ dispatched[Processor0] = {TIMER_IRQ_0, SIO_IRQ_PROC0}
    /\ owed[Processor0] = {}
    /\ \A i \in VisibleTo(Processor0) : ~pending[i]

(* ------------------------------------------------------------------ *)
(* C6 as stated: the two cores never both run the handler of the same  *)
(* line for the same assertion (both past the handler, neither having  *)
(* cleared the pending flag yet).                                      *)
(* ------------------------------------------------------------------ *)
C6_NoSharedDispatch ==
    ~ ( /\ pc[Processor0] = "clear"
        /\ pc[Processor1] = "clear"
        /\ cur[Processor0] = cur[Processor1] )

(* ------------------------------------------------------------------ *)
(* C6 amended: there is no cross-core contention for the lines owned   *)
(* by one core: only the owner ever dispatches, clears or re-enables   *)
(* SIO_IRQ_PROC0 or SIO_IRQ_PROC1.                                     *)
(* ------------------------------------------------------------------ *)
C6_NoContentionOnOwnedLines ==
    \A c \in Cores : \A o \in Cores :
        (Dispatching(c) /\ cur[c] = Some(OwnedLine(o))) => c = o

\* Both cores are clearing at the same time, each its own line.
C6_Witness ==
    /\ pc[Processor0] = "clear"
    /\ cur[Processor0] = Some(SIO_IRQ_PROC0)
    /\ pc[Processor1] = "clear"
    /\ cur[Processor1] = Some(SIO_IRQ_PROC1)

(* ------------------------------------------------------------------ *)
(* C7 (under SpecAtomic): the handler of an interrupt asserted while   *)
(* the closure runs records a larger counter value than the closure,   *)
(* atomic returns the value of the closure, and a core outside atomic  *)
(* has interrupts enabled.                                             *)
(* ------------------------------------------------------------------ *)
C7_AtomicExcludesHandler ==
    \A c \in Cores :
        /\ hStamp[c] # 0 => (fStamp[c] # 0 /\ fStamp[c] < hStamp[c])
        /\ pc[c] = "idle" => (~primask[c] /\ result[c] = fStamp[c])

\* A line asserted inside the closure of core 0 was handled by core 0 after
\* atomic had returned the closure's value.
C7_Witness ==
    /\ pc[Processor0] = "idle"
    /\ fStamp[Processor0] # 0
    /\ result[Processor0] = fStamp[Processor0]
    /\ hStamp[Processor0] > fStamp[Processor0]

(* ------------------------------------------------------------------ *)
(* C8 as stated: service_interrupt recognises every line of a          *)
(* peripheral the struct owns, so no such line halts the kernel.       *)
(* ------------------------------------------------------------------ *)
C8_PeripheralLinesHandled ==
    \A c \in Cores :
        pc[c] = "halted" => Unwrap(panicId[c]) \notin PeripheralLines

(* ------------------------------------------------------------------ *)
(* C9: a step of the drain loop taken when no line visible to the core *)
(* is pending is the return: no handler is invoked and no pending or   *)
(* enable flag changes; entering the call changes no flag either.      *)
(* ------------------------------------------------------------------ *)
C9_IdempotentWhenQuiescent ==
    [][\A c \in Cores :
          /\ (pc[c] = "loop" /\ pc'[c] # pc[c]
                /\ \A i \in VisibleTo(c) : ~pending[i]) =>
                /\ pc'[c] = "idle"
                /\ cur'[c] = None
                /\ pending' = pending
                /\ enabled' = enabled
                /\ panicId' = panicId
          /\ (pc[c] = "idle" /\ pc'[c] = "loop") =>
                /\ pending' = pending
                /\ enabled' = enabled
      ]_vars

\* Core 1 is at its first query with nothing visible pending, while the
\* line of core 0 is pending.
C9_Witness ==
    /\ pc[Processor1] = "loop"
    /\ dispatched[Processor1] = {}
    /\ pending[SIO_IRQ_PROC0]
    /\ \A i \in VisibleTo(Processor1) : ~pending[i]

(* ------------------------------------------------------------------ *)
(* C10: the answer of has_pending_interrupts on a core is true exactly *)
(* when the query of service_pending_interrupts on that core, in the   *)
(* same controller state, finds a line to dispatch.                    *)
(* ------------------------------------------------------------------ *)
C10_SameMasking ==
    [][\A c \in Cores :
          (pc[c] = "idle" /\ pc'[c] = "hp_done") =>
              (hpResult'[c] <=> IsSome(ServiceQuery(c)))
      ]_vars

\* Core 1 was answered true with its own line the only one pending.
C10_Witness ==
    /\ pc[Processor1] = "hp_done"
    /\ hpResult[Processor1]
    /\ \A i \in Lines : pending[i] <=> i = SIO_IRQ_PROC1




(* ------------------------------------------------------------------ *)
(* C11: on a build that does not target the bare-metal ARM hardware a  *)
(* call of switch_to_user panics: it never returns a stack pointer and *)
(* leaves the process registers as they were passed.                   *)
(* ------------------------------------------------------------------ *)
C11_HostSwitchAborts ==
    /\ [][(target # "arm_none" /\ swPc = "kernel" /\ swPc' # "kernel") =>
             /\ swPc' = "panicked"
             /\ swRet' = None
             /\ process_regs' = process_regs
        ]_vars
    /\ [](target # "arm_none" =>
             /\ swPc \in {"kernel", "panicked"}
             /\ swRet = None)

\* The host build has called switch_to_user with non-zero registers.
C11_Witness ==
    /\ target = "host"
    /\ swPc = "panicked"
    /\ process_regs = [r \in 1 .. NumRegs |-> 1]
    /\ user_stack = 1

(* ------------------------------------------------------------------ *)
(* C12: at most 8 regions are ever active; a request that fits into    *)
(* the 8 regions is granted whole, a request that would make a 9th     *)
(* region active is answered with an error and activates no region.    *)
(* ------------------------------------------------------------------ *)
C12_NinthRegionRefused ==
    /\ [][mpuResult' \in {"ok", "error"} =>
             IF Cardinality(mpuActive) + mpuRequested' <= 8
             THEN /\ mpuResult' = "ok"
                  /\ Cardinality(mpuActive') =
                        Cardinality(mpuActive) + mpuRequested'
                  /\ mpuActive \subseteq mpuActive'
             ELSE /\ mpuResult' = "error"
                  /\ mpuActive' = mpuActive
        ]_vars
    /\ [](Cardinality(mpuActive) <= 8)

\* All 8 regions are active and a request for one more has been refused.
C12_Witness ==
    /\ Cardinality(mpuActive) = 8
    /\ mpuRequested = 1
    /\ mpuResult = "error"

C14_NoAssertionLost ==
    [][\A c \in Cores :
          (pc[c] = "clear" /\ pc'[c] = "enable") =>
              unserved[Unwrap(cur[c])] = "none"
      ]_vars

(* ------------------------------------------------------------------ *)
(* C15: the line a query of the drain loop hands to the dispatch is    *)
(* the lowest-numbered pending line visible to the core.               *)
(* ------------------------------------------------------------------ *)
C15_LowestIdFirst ==
    [][\A c \in Cores :
          (pc[c] = "loop" /\ pc'[c] = "service") =>
              /\ Unwrap(cur'[c]) \in VisibleTo(c)
              /\ pending[Unwrap(cur'[c])]
              /\ \A j \in VisibleTo(c) : pending[j] => Unwrap(cur'[c]) <= j
      ]_vars

\* Three visible lines are pending and the query has picked the lowest.
C15_Witness ==
    /\ pc[Processor0] = "service"
    /\ cur[Processor0] = Some(TIMER_IRQ_0)
    /\ pending[SIO_IRQ_PROC0]
    /\ pending[UART1_IRQ]
    /\ dispatched[Processor0] = {}

(* ------------------------------------------------------------------ *)
(* C16: has_pending_interrupts changes no pending and no enable flag;  *)
(* a step of service_pending_interrupts on a core changes the flags of *)
(* lines that call has dispatched only, never those of the line the    *)
(* core's mask excludes.                                               *)
(* ------------------------------------------------------------------ *)
C16_MaskingIsFiltering ==
    [][\A c \in Cores :
          /\ (pc[c] \in {"idle", "hp_done"} /\ pc'[c] \in {"idle", "hp_done"}
                /\ pc'[c] # pc[c]) =>
                (pending' = pending /\ enabled' = enabled)
          /\ DrainStep(c) =>
                \A i \in Lines :
                    (pending'[i] # pending[i] \/ enabled'[i] # enabled[i]) =>
                        (i \in dispatched[c] /\ i # ForeignLine(c))
      ]_vars

\* Core 1 has dispatched and cleared the shared line; the line of core 0 is
\* pending and disabled, as the ISR left it.
C16_Witness ==
    /\ pc[Processor1] = "enable"
    /\ cur[Processor1] = Some(TIMER_IRQ_0)
    /\ pending[SIO_IRQ_PROC0]
    /\ ~enabled[SIO_IRQ_PROC0]

(* ------------------------------------------------------------------ *)
(* C17: when the dispatch runs an arm that calls                       *)
(* sio.handle_proc_interrupt, the processor it names is the core that  *)
(* executes the call.                                                  *)
(* ------------------------------------------------------------------ *)
C17_ProcHandlerOnOwnCore ==
    [][\A c \in Cores :
          (pc[c] = "service" /\ pc'[c] = "clear"
                /\ IsSome(handle_proc_interrupt(Unwrap(cur[c])))) =>
              Unwrap(handle_proc_interrupt(Unwrap(cur[c]))) = get_processor(c)
      ]_vars

\* Core 1 has run the handler of its own inter-processor line while the
\* line of core 0 is pending.
C17_Witness ==
    /\ pc[Processor1] = "clear"
    /\ cur[Processor1] = Some(SIO_IRQ_PROC1)
    /\ pending[SIO_IRQ_PROC0]

(* ------------------------------------------------------------------ *)
(* C18: the masks of the struct keep the values the constructor gave   *)
(* them; core 0 excludes SIO_IRQ_PROC1 only, core 1 SIO_IRQ_PROC0      *)
(* only, so every line is visible to a core and every other line to    *)
(* both.                                                               *)
(* ------------------------------------------------------------------ *)
ExcludedBy(mask) == { i \in Lines : MaskBit(mask, i) }

C18_MasksFixedAndDisjoint ==
    /\ chip.processor0_interrupt_mask = interrupt_mask(SIO_IRQ_PROC1)
    /\ chip.processor1_interrupt_mask = interrupt_mask(SIO_IRQ_PROC0)
    /\ ExcludedBy(chip.processor0_interrupt_mask) = {SIO_IRQ_PROC1}
    /\ ExcludedBy(chip.processor1_interrupt_mask) = {SIO_IRQ_PROC0}
    /\ ExcludedBy(chip.processor0_interrupt_mask)
          \cap ExcludedBy(chip.processor1_interrupt_mask) = {}
    /\ \A i \in Lines \ {SIO_IRQ_PROC0, SIO_IRQ_PROC1} :
          /\ ~MaskBit(chip.processor0_interrupt_mask, i)
          /\ ~MaskBit(chip.processor1_interrupt_mask, i)

\* Both cores have used their masks: core 0 is draining its own line and
\* core 1 has been answered by has_pending_interrupts.
C18_Witness ==
    /\ pc[Processor0] = "enable"
    /\ cur[Processor0] = Some(SIO_IRQ_PROC0)
    /\ pc[Processor1] = "hp_done"
    /\ hpResult[Processor1]

=============================================================================
